---- MODULE Spec2Model ----
(***************************************************************************)
(* Model of src/Draggable.js: the gesture-to-position pipeline of the      *)
(* Draggable component (grant, clamped move, release, press-out, the       *)
(* animateTo handle and the Animated.ValueXY it drives).                   *)
(*                                                                         *)
(* An optional JavaScript value is a sequence: <<>> is undefined, <<v>> is *)
(* the defined value v.  Coordinates are integers.                         *)
(***************************************************************************)
EXTENDS Integers, Sequences, FiniteSets, TLC

VARIABLES
    props,            \* the props of the component, fixed for a behaviour
    panValue,         \* pan.current: _value of the x and y Animated.Value
    panOffset,        \* pan.current: _offset of the x and y Animated.Value
    anim,             \* the spring running on pan.current, <<>> when none
    listeners,        \* number of value listeners registered on pan.current
    mounted,          \* the component is mounted
    offsetFromStart,  \* offsetFromStart.current
    childSize,        \* childSize.current
    startBounds,      \* startBounds.current, <<>> until the first grant
    isDragging,       \* isDragging.current
    released,         \* history: the rectangle getBounds() returned when the
                      \* current drag was released, <<>> until it is
    touch,            \* "none" or "down": a touch is in progress
    responder,        \* who owns the touch: "none", "touchable" or "pan"
    gestureState,     \* the PanResponder gestureState (cumulative dx, dy)
    pressOutPending,  \* the touchable still owes its onPressOut
    gestures,         \* number of touches started so far
    animations,       \* number of animateTo calls so far
    calls,            \* steps and callbacks of the last handler, in order
    fired,            \* names of the callbacks invoked in the current gesture
    last              \* the last operation, its argument, whether it threw

vars == <<props, panValue, panOffset, anim, listeners, mounted, offsetFromStart,
          childSize, startBounds, isDragging, released, touch, responder,
          gestureState, pressOutPending, gestures, animations, calls, fired, last>>

----------------------------------------------------------------------------
(* Bounds of the model *)

MaxGestures == 2
MaxTicks == 1
MaxAnimations == 1
MaxCoord == 200

(* Program constants *)

far == 999999999
DragThreshold == 2
renderSizeDefault == 36

----------------------------------------------------------------------------
(* Values *)

Undefined == <<>>
Some(v) == <<v>>
Zero == [x |-> 0, y |-> 0]

Abs(n) == IF n < 0 THEN -n ELSE n
MathMax(a, b) == IF a >= b THEN a ELSE b
MathMin(a, b) == IF a <= b THEN a ELSE b
NumberIsFinite(v) == v # Undefined
Truthy(v) == v # Undefined

Add(p, q) == [x |-> p.x + q.x, y |-> p.y + q.y]

(* The inputs the environment draws from *)

Unconstrained == [minX |-> Undefined, maxX |-> Undefined,
                  minY |-> Undefined, maxY |-> Undefined]
DefaultProps ==
    [shouldReverse |-> FALSE, disabled |-> FALSE, onReverse |-> "absent",
     onDragRelease |-> "absent", x |-> 0, y |-> 0, renderSize |-> renderSizeDefault,
     minX |-> Undefined, maxX |-> Undefined, minY |-> Undefined, maxY |-> Undefined]
With(p, c) == [p EXCEPT !.minX = c.minX, !.maxX = c.maxX, !.minY = c.minY, !.maxY = c.maxY]
ConstraintSets ==
    { Unconstrained,
      [minX |-> Some(0), maxX |-> Some(100), minY |-> Some(0), maxY |-> Some(100)],
      [minX |-> Some(0), maxX |-> Undefined, minY |-> Undefined, maxY |-> Some(100)],
      [minX |-> Undefined, maxX |-> Some(100), minY |-> Some(0), maxY |-> Undefined],
      [minX |-> Some(0), maxX |-> Some(30), minY |-> Undefined, maxY |-> Undefined] }
CustomReverseOffset == [x |-> 4, y |-> -2]
(* The configurations explored: every constraint set in both reversal      *)
(* modes (the element placed off the origin when both X bounds and both Y  *)
(* bounds are set), then one prop at a time changed from its default.      *)
PropSets ==
    LET modes == {[DefaultProps EXCEPT !.shouldReverse = r] : r \in BOOLEAN}
        place(p) == IF p.minY # Undefined /\ p.maxY # Undefined
                    THEN [p EXCEPT !.x = 10, !.y = 5] ELSE p
    IN  {place(With(p, c)) : p \in modes, c \in ConstraintSets}
        \cup {[DefaultProps EXCEPT !.shouldReverse = TRUE, !.onReverse = f] :
                 f \in {"returnsUndefined", "returnsOffset"}}
        \cup {[p EXCEPT !.onDragRelease = "null"] : p \in modes}
        \cup {[p EXCEPT !.disabled = TRUE] : p \in modes}
(* Cumulative gesture deltas a move event can carry: below the drag        *)
(* threshold, just over it on either axis, past a bound, past the sentinel *)
Deltas ==
    { [dx |-> 2, dy |-> 0], [dx |-> -3, dy |-> 0], [dx |-> 2, dy |-> -3],
      [dx |-> 70, dy |-> 70], [dx |-> -(far + 1), dy |-> 0],
      [dx |-> far + 1, dy |-> 70] }
LayoutSizes == {[x |-> 36, y |-> 36], [x |-> 50, y |-> 20]}
AnimateTargets == {Undefined, Some([x |-> 20, y |-> -10])}

----------------------------------------------------------------------------
(* Props after Draggable.defaultProps: a prop left out takes its default,  *)
(* a prop passed as null stays null.                                       *)

onDragRelease == IF props.onDragRelease = "absent" THEN "function" ELSE props.onDragRelease
onReverse == IF props.onReverse = "absent" THEN Undefined ELSE Some(props.onReverse)

(* The value onReverse() returns when it is supplied *)
onReverseResult ==
    IF props.onReverse = "returnsOffset" THEN Some(CustomReverseOffset) ELSE Undefined

----------------------------------------------------------------------------
(* Pure functions of the component *)

(* clamp with the roles of Math.max and Math.min exchanged *)
clamp_swapped(number, min, max) == MathMin(min, MathMax(number, max))

clamp(number, min, max) == MathMax(min, MathMin(number, max))

getBounds(offset, size) ==
    LET left == props.x + offset.x
        top == props.y + offset.y
    IN  [left |-> left, top |-> top, right |-> left + size.x, bottom |-> top + size.y]

(* shouldStartDrag with the threshold itself counted as a drag *)
shouldStartDrag_inclusive(gs) ==
    ~props.disabled /\ (Abs(gs.dx) >= DragThreshold \/ Abs(gs.dy) >= DragThreshold)

shouldStartDrag(gs) ==
    ~props.disabled /\ (Abs(gs.dx) > DragThreshold \/ Abs(gs.dy) > DragThreshold)

(* changeX with the upper limit taken from the left edge *)
changeX_fromLeft(gs, sb) ==
    clamp(gs.dx,
          IF NumberIsFinite(props.minX) THEN props.minX[1] - sb.left ELSE -far,
          IF NumberIsFinite(props.maxX) THEN props.maxX[1] - sb.left ELSE far)

(* The clamped delta handleOnDrag writes for a gesture delta *)
changeX(gs, sb) ==
    clamp(gs.dx,
          IF NumberIsFinite(props.minX) THEN props.minX[1] - sb.left ELSE -far,
          IF NumberIsFinite(props.maxX) THEN props.maxX[1] - sb.right ELSE far)

changeY(gs, sb) ==
    clamp(gs.dy,
          IF NumberIsFinite(props.minY) THEN props.minY[1] - sb.top ELSE -far,
          IF NumberIsFinite(props.maxY) THEN props.maxY[1] - sb.bottom ELSE far)

(* reversePosition without the call of onReverse *)
reverseTarget_originOnly == Zero

(* The offset reversePosition springs to *)
reverseTarget ==
    LET originalOffset == Zero
        newOffset == IF Truthy(onReverse) THEN onReverseResult ELSE Some(originalOffset)
    IN  IF Truthy(newOffset) THEN newOffset[1] ELSE originalOffset

----------------------------------------------------------------------------
(* Animated.ValueXY as the component uses it *)

NoAnim == <<>>
Spring(toValue, callback) == Some([toValue |-> toValue, callback |-> callback, ticks |-> 0])

(* The start callback of animateTo runs when its spring is stopped or ends *)
EndCalls(a, finished) ==
    IF a # NoAnim /\ a[1].callback THEN << <<"callback", finished>> >> ELSE <<>>

(* No listener registered in the mode without reversal *)
Mirror_off(value, offset) == offsetFromStart

(* A listener that mirrors the value without the offset *)
Mirror_valueOnly(value, offset) == IF listeners > 0 THEN value ELSE offsetFromStart

(* The listener of the mount effect mirrors value + offset *)
Mirror(value, offset) == IF listeners > 0 THEN Add(value, offset) ELSE offsetFromStart

(* One step of a spring toward its target *)
Toward(v, t) == IF t >= v THEN v + ((t - v) \div 2) ELSE v - ((v - t) \div 2)

Name(c) ==
    IF c[1] = "onRelease"
    THEN (IF c[2] THEN "onRelease(true)" ELSE "onRelease(false)")
    ELSE c[1]
Names(cs) == {Name(cs[i]) : i \in 1..Len(cs)}

Op(op, arg) == [op |-> op, arg |-> arg, threw |-> FALSE]
Small(p) == Abs(p.x) <= MaxCoord /\ Abs(p.y) <= MaxCoord

----------------------------------------------------------------------------
(* The mount effect: its body registers the listener when reversal is off  *)
(* (and springs to the reverse target when it is on), its cleanup removes  *)
(* every listener.                                                         *)

(* A cleanup that removes nothing *)
effectCleanup_none(n) == n

effectCleanup(n) == 0
effectListeners(n) == IF ~props.shouldReverse THEN n + 1 ELSE n

----------------------------------------------------------------------------
(* The state after the first render and its mount effect *)

Init ==
    /\ props \in PropSets
    /\ panValue = Zero
    /\ panOffset = Zero
    /\ offsetFromStart = Zero
    /\ childSize = [x |-> props.renderSize, y |-> props.renderSize]
    /\ startBounds = Undefined
    /\ isDragging = FALSE
    /\ released = Undefined
    /\ listeners = effectListeners(0)
    /\ mounted = TRUE
    /\ anim = IF props.shouldReverse THEN Spring(Some(reverseTarget), FALSE) ELSE NoAnim
    /\ touch = "none"
    /\ responder = "none"
    /\ gestureState = [dx |-> 0, dy |-> 0]
    /\ pressOutPending = FALSE
    /\ gestures = 0
    /\ animations = 0
    /\ calls = <<>>
    /\ fired = {}
    /\ last = Op("mount", <<>>)

----------------------------------------------------------------------------
(* Handlers of the component.  Each leaves touch, responder, gestureState, *)
(* pressOutPending, gestures, animations and last to the event that runs   *)
(* it, and sets the other variables.                                       *)

reversePosition == Spring(Some(reverseTarget), FALSE)

(* onPanResponderGrant without the snapshot of the bounds *)
onPanResponderGrant_noSnapshot ==
    /\ startBounds' = startBounds
    /\ isDragging' = TRUE
    /\ released' = Undefined
    /\ IF ~props.shouldReverse
       THEN /\ panOffset' = offsetFromStart
            /\ panValue' = Zero
            /\ anim' = NoAnim
            /\ offsetFromStart' = Mirror(panValue', panOffset')
            /\ calls' = EndCalls(anim, FALSE)
       ELSE /\ UNCHANGED <<panOffset, panValue, anim, offsetFromStart>>
            /\ calls' = <<>>
    /\ UNCHANGED <<props, listeners, childSize>>

onPanResponderGrant ==
    /\ startBounds' = Some(getBounds(offsetFromStart, childSize))
    /\ isDragging' = TRUE
    /\ released' = Undefined
    /\ IF ~props.shouldReverse
       THEN /\ panOffset' = offsetFromStart
            /\ panValue' = Zero
            /\ anim' = NoAnim
            /\ offsetFromStart' = Mirror(panValue', panOffset')
            /\ calls' = EndCalls(anim, FALSE)
       ELSE /\ UNCHANGED <<panOffset, panValue, anim, offsetFromStart>>
            /\ calls' = <<>>
    /\ UNCHANGED <<props, listeners, childSize>>

(* handleOnDrag taking a new snapshot of the bounds on every move *)
handleOnDrag_resnapshot(gs) ==
    /\ panValue' = [x |-> changeX(gs, startBounds[1]), y |-> changeY(gs, startBounds[1])]
    /\ anim' = NoAnim
    /\ offsetFromStart' = Mirror(panValue', panOffset)
    /\ startBounds' = Some(getBounds(offsetFromStart', childSize))
    /\ calls' = EndCalls(anim, FALSE)
                \o << <<"onDrag", startBounds, getBounds(offsetFromStart', childSize)>> >>
    /\ UNCHANGED <<props, panOffset, listeners, childSize, released, isDragging>>

(* handleOnDrag writing the value without stopping the running spring *)
handleOnDrag_keepsSpring(gs) ==
    /\ panValue' = [x |-> changeX(gs, startBounds[1]), y |-> changeY(gs, startBounds[1])]
    /\ anim' = anim
    /\ offsetFromStart' = Mirror(panValue', panOffset)
    /\ calls' = << <<"onDrag", startBounds, getBounds(offsetFromStart', childSize)>> >>
    /\ UNCHANGED <<props, panOffset, listeners, childSize, startBounds, released, isDragging>>

handleOnDrag(gs) ==
    /\ panValue' = [x |-> changeX(gs, startBounds[1]), y |-> changeY(gs, startBounds[1])]
    /\ anim' = NoAnim
    /\ offsetFromStart' = Mirror(panValue', panOffset)
    /\ calls' = EndCalls(anim, FALSE)
                \o << <<"onDrag", startBounds, getBounds(offsetFromStart', childSize)>> >>
    /\ UNCHANGED <<props, panOffset, listeners, childSize, startBounds, released, isDragging>>

onPanResponderRelease ==
    /\ isDragging' = FALSE
    /\ IF ~props.shouldReverse
       THEN /\ panValue' = Add(panValue, panOffset)
            /\ panOffset' = Zero
            /\ anim' = anim
       ELSE /\ anim' = reversePosition
            /\ UNCHANGED <<panValue, panOffset>>
    /\ calls' = << <<"isDragging", FALSE>> >>
                \o (IF ~props.shouldReverse
                    THEN << <<"flattenOffset">> >>
                    ELSE EndCalls(anim, FALSE) \o << <<"reversePosition">> >>)
                \o (IF onDragRelease # "null"
                    THEN << <<"onDragRelease", startBounds, getBounds(offsetFromStart, childSize)>>,
                            <<"onRelease", TRUE>> >>
                    ELSE <<>>)
    /\ released' = Some(getBounds(offsetFromStart, childSize))
    /\ UNCHANGED <<props, listeners, offsetFromStart, childSize, startBounds>>

handlePressOut ==
    << <<"onPressOut">> >> \o (IF ~isDragging THEN << <<"onRelease", FALSE>> >> ELSE <<>>)

----------------------------------------------------------------------------
(* Events: the touch stream as the responder system delivers it, the host  *)
(* layout pass, the animateTo handle and the frames of a running spring.   *)

TouchDown ==
    /\ mounted
    /\ UNCHANGED mounted
    /\ touch = "none"
    /\ ~pressOutPending
    /\ gestures < MaxGestures
    /\ Small(offsetFromStart) /\ Small(panValue) /\ Small(panOffset)
    /\ touch' = "down"
    /\ responder' = IF props.disabled THEN "none" ELSE "touchable"
    /\ gestureState' = [dx |-> 0, dy |-> 0]
    /\ gestures' = gestures + 1
    /\ calls' = IF props.disabled THEN <<>> ELSE << <<"onPressIn">> >>
    /\ fired' = Names(calls')
    /\ last' = Op("touchDown", <<>>)
    /\ UNCHANGED <<props, panValue, panOffset, anim, listeners, offsetFromStart,
                   childSize, startBounds, released, isDragging, pressOutPending, animations>>

(* A move while the pan responder does not own the touch: the responder    *)
(* system asks onMoveShouldSetPanResponder(Capture) and, on true, grants.  *)
(* The grant resets the gesture deltas and terminates the touchable, which *)
(* then owes its onPressOut.                                               *)
onMoveShouldSetPanResponder(gs) ==
    /\ mounted
    /\ UNCHANGED mounted
    /\ touch = "down"
    /\ responder # "pan"
    /\ IF shouldStartDrag(gs)
       THEN /\ onPanResponderGrant
            /\ responder' = "pan"
            /\ gestureState' = [dx |-> 0, dy |-> 0]
            /\ pressOutPending' = (responder = "touchable")
       ELSE /\ gestureState' = gs
            /\ calls' = <<>>
            /\ UNCHANGED <<props, panValue, panOffset, anim, listeners,
                           offsetFromStart, childSize, startBounds, released, isDragging,
                           responder, pressOutPending>>
    /\ fired' = fired \cup Names(calls') \cup (IF responder' = "pan" THEN {"grant"} ELSE {})
    /\ last' = Op("shouldSet", <<gs>>)
    /\ UNCHANGED <<touch, gestures, animations>>

(* A move while the pan responder owns the touch *)
onPanResponderMove(gs) ==
    /\ mounted
    /\ UNCHANGED mounted
    /\ touch = "down"
    /\ responder = "pan"
    /\ gestureState' = gs
    /\ handleOnDrag(gestureState')
    /\ fired' = fired \cup Names(calls')
    /\ last' = Op("drag", <<>>)
    /\ UNCHANGED <<touch, responder, pressOutPending, gestures, animations>>

(* The touch ends while the pan responder owns it *)
PanRelease ==
    /\ mounted
    /\ UNCHANGED mounted
    /\ touch = "down"
    /\ responder = "pan"
    /\ onPanResponderRelease
    /\ touch' = "none"
    /\ responder' = "none"
    /\ fired' = fired \cup Names(calls')
    /\ last' = Op("release", <<>>)
    /\ UNCHANGED <<gestureState, pressOutPending, gestures, animations>>

(* The host takes the responder away: PanResponder.create was given no     *)
(* onPanResponderTerminate, so no handler of the component runs.           *)
PanTerminate ==
    /\ mounted
    /\ UNCHANGED mounted
    /\ touch = "down"
    /\ responder = "pan"
    /\ touch' = "none"
    /\ responder' = "none"
    /\ calls' = <<>>
    /\ last' = Op("terminate", <<>>)
    /\ UNCHANGED <<props, panValue, panOffset, anim, listeners, offsetFromStart,
                   childSize, startBounds, released, isDragging, gestureState,
                   pressOutPending, gestures, animations, fired>>

(* The touch ends while the touchable owns it: onPress, then onPressOut *)
TouchableRelease ==
    /\ mounted
    /\ UNCHANGED mounted
    /\ touch = "down"
    /\ responder = "touchable"
    /\ touch' = "none"
    /\ responder' = "none"
    /\ calls' = << <<"onShortPressRelease">> >> \o handlePressOut
    /\ fired' = fired \cup Names(calls')
    /\ last' = Op("tap", <<>>)
    /\ UNCHANGED <<props, panValue, panOffset, anim, listeners, offsetFromStart,
                   childSize, startBounds, released, isDragging, gestureState,
                   pressOutPending, gestures, animations>>

(* The touch ends on a disabled component: nothing owns it *)
TouchUp ==
    /\ mounted
    /\ UNCHANGED mounted
    /\ touch = "down"
    /\ responder = "none"
    /\ touch' = "none"
    /\ calls' = <<>>
    /\ last' = Op("touchUp", <<>>)
    /\ UNCHANGED <<props, panValue, panOffset, anim, listeners, offsetFromStart,
                   childSize, startBounds, released, isDragging, responder, gestureState,
                   pressOutPending, gestures, animations, fired>>

(* The onPressOut the terminated touchable owes arrives, during the drag   *)
(* or after its release.                                                   *)
PressOut ==
    /\ mounted
    /\ UNCHANGED mounted
    /\ pressOutPending
    /\ pressOutPending' = FALSE
    /\ calls' = handlePressOut
    /\ fired' = fired \cup Names(calls')
    /\ last' = Op("pressOut", <<>>)
    /\ UNCHANGED <<props, panValue, panOffset, anim, listeners, offsetFromStart,
                   childSize, startBounds, released, isDragging, touch, responder,
                   gestureState, gestures, animations>>

handleOnLayout(size) ==
    /\ mounted
    /\ UNCHANGED mounted
    /\ size # childSize
    /\ childSize' = size
    /\ calls' = <<>>
    /\ last' = Op("layout", <<>>)
    /\ UNCHANGED <<props, panValue, panOffset, anim, listeners, offsetFromStart,
                   startBounds, released, isDragging, touch, responder, gestureState,
                   pressOutPending, gestures, animations, fired>>

(* animateTo hands toValue to Animated.spring as it is.  Animated.spring   *)
(* on a ValueXY reads x and y of every config entry: with an undefined     *)
(* toValue it throws, or in a build that tolerates it animates toward an   *)
(* undefined value.                                                        *)
animateTo(offset, callback, throws) ==
    /\ UNCHANGED mounted
    /\ animations < MaxAnimations
    /\ animations' = animations + 1
    /\ throws => offset = Undefined
    /\ IF throws
       THEN /\ last' = [op |-> "animateTo", arg |-> <<offset, callback>>, threw |-> TRUE]
            /\ calls' = <<>>
            /\ UNCHANGED anim
       ELSE /\ last' = Op("animateTo", <<offset, callback>>)
            /\ anim' = Spring(offset, callback)
            /\ calls' = EndCalls(anim, FALSE)
    /\ UNCHANGED <<props, panValue, panOffset, listeners, offsetFromStart, childSize,
                   startBounds, released, isDragging, touch, responder, gestureState,
                   pressOutPending, gestures, fired>>

(* A frame of the running spring *)
SpringTick ==
    /\ UNCHANGED mounted
    /\ anim # NoAnim
    /\ anim[1].toValue # Undefined
    /\ anim[1].ticks < MaxTicks
    /\ panValue' = [x |-> Toward(panValue.x, anim[1].toValue[1].x),
                    y |-> Toward(panValue.y, anim[1].toValue[1].y)]
    /\ panValue' # panValue
    /\ anim' = Some([anim[1] EXCEPT !.ticks = @ + 1])
    /\ offsetFromStart' = Mirror(panValue', panOffset)
    /\ calls' = <<>>
    /\ last' = Op("tick", <<>>)
    /\ UNCHANGED <<props, panOffset, listeners, childSize, startBounds, released, isDragging,
                   touch, responder, gestureState, pressOutPending, gestures,
                   animations, fired>>

(* A spring that ends where its last frame left the value *)
SpringRest_noSnap ==
    /\ UNCHANGED mounted
    /\ anim # NoAnim
    /\ anim[1].toValue # Undefined
    /\ panValue' = panValue
    /\ anim' = NoAnim
    /\ offsetFromStart' = offsetFromStart
    /\ calls' = EndCalls(anim, TRUE)
    /\ last' = Op("rest", <<>>)
    /\ UNCHANGED <<props, panOffset, listeners, childSize, startBounds, released, isDragging,
                   touch, responder, gestureState, pressOutPending, gestures,
                   animations, fired>>

(* The spring comes to rest: the value is set to toValue and the start     *)
(* callback runs with finished = true.                                     *)
SpringRest ==
    /\ UNCHANGED mounted
    /\ anim # NoAnim
    /\ anim[1].toValue # Undefined
    /\ panValue' = anim[1].toValue[1]
    /\ anim' = NoAnim
    /\ offsetFromStart' = Mirror(panValue', panOffset)
    /\ calls' = EndCalls(anim, TRUE)
    /\ last' = Op("rest", <<>>)
    /\ UNCHANGED <<props, panOffset, listeners, childSize, startBounds, released, isDragging,
                   touch, responder, gestureState, pressOutPending, gestures,
                   animations, fired>>

(* React runs the cleanup of the mount effect and the effect again right   *)
(* after the mount (the double invocation of effects of strict mode)       *)
EffectRerun ==
    /\ mounted
    /\ last.op = "mount"
    /\ listeners' = effectListeners(effectCleanup(listeners))
    /\ anim' = IF props.shouldReverse THEN reversePosition ELSE anim
    /\ calls' = << <<"afterRender">> >>
                \o (IF props.shouldReverse THEN EndCalls(anim, FALSE) ELSE <<>>)
    /\ last' = Op("effect", <<>>)
    /\ UNCHANGED <<props, panValue, panOffset, mounted, offsetFromStart, childSize,
                   startBounds, released, isDragging, touch, responder, gestureState,
                   pressOutPending, gestures, animations, fired>>

(* Teardown: the cleanup of the mount effect runs, the touch handlers are  *)
(* gone; a running spring and the animateTo handle outlive the component.  *)
Unmount ==
    /\ mounted
    /\ mounted' = FALSE
    /\ listeners' = effectCleanup(listeners)
    /\ touch' = "none"
    /\ responder' = "none"
    /\ pressOutPending' = FALSE
    /\ calls' = <<>>
    /\ last' = Op("unmount", <<>>)
    /\ UNCHANGED <<props, panValue, panOffset, anim, offsetFromStart, childSize,
                   startBounds, released, isDragging, gestureState, gestures,
                   animations, fired>>

Next ==
    \/ TouchDown
    \/ \E gs \in Deltas : onMoveShouldSetPanResponder(gs)
    \/ \E gs \in Deltas : onPanResponderMove(gs)
    \/ PanRelease
    \/ PanTerminate
    \/ TouchableRelease
    \/ TouchUp
    \/ PressOut
    \/ \E size \in LayoutSizes : handleOnLayout(size)
    \/ \E offset \in AnimateTargets, callback \in BOOLEAN, throws \in BOOLEAN :
          animateTo(offset, callback, throws)
    \/ SpringTick
    \/ SpringRest
    \/ EffectRerun
    \/ Unmount

Spec == Init /\ [][Next]_vars

(* The component mounted with shouldReverse, and an animation loop that    *)
(* keeps delivering frames: a running spring is not left waiting forever.  *)
InitReverse == Init /\ props.shouldReverse
FairSpec == InitReverse /\ [][Next]_vars /\ WF_vars(SpringRest)

----------------------------------------------------------------------------
(* Properties *)

Dragged == last.op = "drag"
Fits(min, max, near, farEdge) == farEdge - near <= max[1] - min[1]

(* One axis of the clamp law as the specification words it: both limits    *)
(* set, both edges of the shifted rectangle are inside; one limit set, the *)
(* delta is cut on that side only.                                         *)
AxisClamped(min, max, near, farEdge, raw, d) ==
    /\ (min # Undefined /\ max # Undefined) =>
          /\ min[1] <= near + d /\ near + d <= max[1]
          /\ min[1] <= farEdge + d /\ farEdge + d <= max[1]
    /\ (min # Undefined /\ max = Undefined) => d = MathMax(raw, min[1] - near)
    /\ (min = Undefined /\ max # Undefined) => d = MathMin(raw, max[1] - farEdge)

(* The same law for an element that fits between the limits and a raw      *)
(* delta inside the sentinel range                                         *)
AxisClampedWithin(min, max, near, farEdge, raw, d) ==
    /\ (min # Undefined /\ max # Undefined /\ Fits(min, max, near, farEdge)) =>
          /\ min[1] <= near + d /\ near + d <= max[1]
          /\ min[1] <= farEdge + d /\ farEdge + d <= max[1]
    /\ (min # Undefined /\ max # Undefined /\ ~Fits(min, max, near, farEdge)) =>
          near + d = min[1]
    /\ (min # Undefined /\ max = Undefined) =>
          /\ min[1] <= near + d
          /\ Abs(raw) <= far => d = MathMax(raw, min[1] - near)
    /\ (min = Undefined /\ max # Undefined) =>
          /\ farEdge + d <= max[1]
          /\ Abs(raw) <= far => d = MathMin(raw, max[1] - farEdge)

(* C1 as stated: after every move event processed while dragging, on each  *)
(* axis, with both limits defined the start rectangle shifted by the       *)
(* clamped delta has both edges inside [min, max] whatever the size and    *)
(* the raw delta; with one limit defined only that edge is limited.        *)
C1_ClampAnySize ==
    Dragged =>
        /\ AxisClamped(props.minX, props.maxX, startBounds[1].left, startBounds[1].right,
                       gestureState.dx, panValue.x)
        /\ AxisClamped(props.minY, props.maxY, startBounds[1].top, startBounds[1].bottom,
                       gestureState.dy, panValue.y)

(* C1 amended: the two edges are inside [min, max] when the start          *)
(* rectangle is no wider than max - min (otherwise the near edge sits on   *)
(* min); with one limit defined that edge is limited and the delta is     *)
(* otherwise the raw one as long as the raw delta is within +-999999999.   *)
C1_ClampWhenFits ==
    Dragged =>
        /\ AxisClampedWithin(props.minX, props.maxX, startBounds[1].left,
                             startBounds[1].right, gestureState.dx, panValue.x)
        /\ AxisClampedWithin(props.minY, props.maxY, startBounds[1].top,
                             startBounds[1].bottom, gestureState.dy, panValue.y)

(* A move whose raw delta would cross maxX was cut to keep the right edge  *)
(* on maxX, with both X limits defined.                                    *)
C1_Witness ==
    /\ Dragged
    /\ props.minX # Undefined /\ props.maxX # Undefined
    /\ Fits(props.minX, props.maxX, startBounds[1].left, startBounds[1].right)
    /\ gestureState.dx = 70
    /\ panValue.x < 70
    /\ startBounds[1].right + panValue.x = props.maxX[1]

Shift(r, d) ==
    [left |-> r.left + d.x, top |-> r.top + d.y,
     right |-> r.right + d.x, bottom |-> r.bottom + d.y]
SizeOf(r) == [x |-> r.right - r.left, y |-> r.bottom - r.top]
Granted == responder # "pan" /\ responder' = "pan"

(* C2 as stated: with reversal disabled and no animateTo call, the         *)
(* rectangle getBounds returns after a release is the drag's startBounds   *)
(* shifted by the delta the animator held at the release, and the next     *)
(* grant snapshots exactly that rectangle.                                 *)
C2_StaysWhereReleased ==
    [][(~props.shouldReverse /\ animations' = 0) =>
          /\ last'.op = "release" =>
                getBounds(offsetFromStart', childSize') = Shift(startBounds[1], panValue)
          /\ (Granted /\ released # Undefined) => startBounds' = released]_vars

(* C2 amended: the left/top corner of the rectangle after a release is the *)
(* corner of startBounds shifted by the delta, and the next grant          *)
(* snapshots that corner; the whole rectangle agrees whenever the measured *)
(* size is the one the compared rectangle was built with.                  *)
C2_CornerStaysWhereReleased ==
    [][(~props.shouldReverse /\ animations' = 0) =>
          /\ last'.op = "release" =>
                LET now == getBounds(offsetFromStart', childSize')
                    moved == Shift(startBounds[1], panValue)
                IN  /\ now.left = moved.left /\ now.top = moved.top
                    /\ childSize' = SizeOf(startBounds[1]) => now = moved
          /\ (Granted /\ released # Undefined) =>
                /\ startBounds'[1].left = released[1].left
                /\ startBounds'[1].top = released[1].top
                /\ childSize = SizeOf(released[1]) => startBounds' = released]_vars

(* A second drag that started 70 to the right of the base, where the first *)
(* was released, has itself been released 70 further.                      *)
C2_Witness ==
    /\ ~props.shouldReverse /\ animations = 0
    /\ last.op = "release" /\ gestures = 2
    /\ startBounds[1].left = props.x + 70
    /\ released # Undefined /\ released[1].left = props.x + 140

C4_TapReported ==
    [][last'.op = "tap" =>
          /\ {"onShortPressRelease", "onRelease(false)"} \subseteq fired'
          /\ fired' \cap {"grant", "onDragRelease", "onRelease(true)"} = {}
          /\ panValue' = panValue /\ panOffset' = panOffset]_vars

(* C5: a move of a touch the pan responder does not own grants exactly     *)
(* when the component is not disabled and |dx| > 2 or |dy| > 2, and        *)
(* nothing else grants.                                                    *)
C5_DragThreshold ==
    [][/\ last'.op = "shouldSet" =>
             ((responder' = "pan" /\ isDragging') <=>
                 (~props.disabled /\ (Abs(last'.arg[1].dx) > 2 \/ Abs(last'.arg[1].dy) > 2)))
       /\ last'.op # "shouldSet" => ~Granted]_vars

(* The move dx = -3, dy = 0 started a drag *)
C5_Witness ==
    /\ last.op = "shouldSet" /\ last.arg[1] = [dx |-> -3, dy |-> 0]
    /\ responder = "pan" /\ isDragging

(* C6 as stated: within one gesture a grant excludes onRelease(event,      *)
(* false) and onShortPressRelease, and onRelease is never invoked with     *)
(* both flags.                                                             *)
C6_TapAndDragExclusive ==
    /\ "grant" \in fired => fired \cap {"onRelease(false)", "onShortPressRelease"} = {}
    /\ ~({"onRelease(false)", "onRelease(true)"} \subseteq fired)

(* C7 as stated: every release of a drag invokes onRelease(event, true) *)
C7_ReleaseNotifiesDragged ==
    last.op = "release" => (~isDragging /\ "onRelease(true)" \in Names(calls))

(* C9 as stated: startBounds is defined exactly while isDragging is true *)
C9_StartBoundsIffDragging == (startBounds # Undefined) <=> isDragging

(* C9 amended: startBounds is defined whenever isDragging is true and is   *)
(* undefined before the first touch; a release ends isDragging and leaves  *)
(* the snapshot of its grant in place.                                     *)
C9_StartBoundsWhileDragging ==
    /\ isDragging => startBounds # Undefined
    /\ gestures = 0 => (startBounds = Undefined /\ ~isDragging)
    /\ last.op = "release" => (~isDragging /\ startBounds # Undefined)

(* A drag was released and its snapshot is still there *)
C9_Witness ==
    /\ last.op = "release" /\ ~isDragging
    /\ startBounds = Some(getBounds(Zero, childSize))

(* C10 as stated: animateTo with an undefined target raises nothing and    *)
(* starts a spring toward {0,0}.                                           *)
C10_AnimateToTotal ==
    (last.op = "animateTo" /\ last.arg[1] = Undefined) =>
        /\ ~last.threw
        /\ anim # NoAnim /\ anim[1].toValue = Some(Zero)

(* The offset the element is drawn at *)
Visual == Add(panValue, panOffset)
JustGranted == last.op = "shouldSet" /\ responder = "pan"
Callbacks(cs) == {i \in 1..Len(cs) : cs[i][1] = "callback"}
ClampedDelta(gs, sb) ==
    [x |-> MathMax(IF props.minX # Undefined THEN props.minX[1] - sb.left ELSE -far,
                   MathMin(gs.dx, IF props.maxX # Undefined THEN props.maxX[1] - sb.right ELSE far)),
     y |-> MathMax(IF props.minY # Undefined THEN props.minY[1] - sb.top ELSE -far,
                   MathMin(gs.dy, IF props.maxY # Undefined THEN props.maxY[1] - sb.bottom ELSE far))]

(* C11 as stated: the callback of an animateTo call is invoked at most     *)
(* once per step, and when it is invoked the animated value is at rest on  *)
(* the target of that call, also when the spring is superseded.            *)
C11_CallbackAtRest ==
    [][(Callbacks(calls') # {} /\ anim # NoAnim /\ anim[1].toValue # Undefined) =>
          /\ Cardinality(Callbacks(calls')) = 1
          /\ anim[1].callback
          /\ (IF last'.op = "rest" THEN panValue' ELSE panValue) = anim[1].toValue[1]]_vars

(* C12: at most one listener is registered at any time, none after the     *)
(* teardown, and no value change after the teardown reaches                *)
(* offsetFromStart.                                                        *)
C12_ListenerRemoved ==
    /\ [](listeners <= 1 /\ (~mounted => listeners = 0))
    /\ [][~mounted => offsetFromStart' = offsetFromStart]_vars

(* After the teardown a frame of a spring moved the value away from the    *)
(* mirrored offset.                                                        *)
C12_Witness ==
    /\ ~mounted /\ ~props.shouldReverse
    /\ last.op = "tick"
    /\ panOffset = Zero /\ panValue # offsetFromStart

(* C13 as stated: in both reversal modes the rectangle a move passes to    *)
(* onDrag is startBounds moved by the delta the move wrote, with the       *)
(* measured size.                                                          *)
C13_DragReportsFreshBounds ==
    Dragged =>
        LET c == calls[Len(calls)]
            left == startBounds[1].left + panValue.x
            top == startBounds[1].top + panValue.y
        IN  /\ c[1] = "onDrag"
            /\ c[3] = [left |-> left, top |-> top,
                       right |-> left + childSize.x, bottom |-> top + childSize.y]

(* C14: while the pan responder owns the touch no move, layout update,     *)
(* animateTo call or spring frame changes startBounds, and every move      *)
(* clamps against the startBounds it found.                                *)
C14_StartBoundsFrozen ==
    [][/\ (responder = "pan" /\ mounted') => startBounds' = startBounds
       /\ last'.op = "drag" => panValue' = ClampedDelta(gestureState', startBounds[1])]_vars

(* A move clamped against the snapshot after a layout update and an        *)
(* animateTo call during the drag                                          *)
C14_Witness ==
    /\ Dragged /\ animations = 1
    /\ SizeOf(startBounds[1]) # childSize
    /\ startBounds[1].right + panValue.x = 100 /\ props.maxX = Some(100)

(* C15: with shouldReverse, a release starts the reverse spring and        *)
(* returns with the value where the drag left it; from then on, with       *)
(* frames delivered fairly, the value comes to rest on the reverse target  *)
(* unless a grant, a move, an animateTo call or the teardown comes first.  *)
C15_Superseded ==
    \/ last.op \in {"drag", "animateTo"}
    \/ JustGranted
    \/ ~mounted
C15_AtReverseTarget ==
    /\ anim = NoAnim
    /\ panValue = (IF props.onReverse = "returnsOffset" THEN CustomReverseOffset ELSE Zero)
C16_NoJumpOnGrant ==
    [][/\ (Granted /\ anim # NoAnim) => Visual' = Visual
       /\ (JustGranted /\ anim # NoAnim /\ last'.op = "drag") =>
             Visual' = Add(Visual, panValue')]_vars

(* C17: a move leaves no spring running and the value on its clamped       *)
(* delta, so that no frame of an earlier spring follows it; a started      *)
(* spring replaces the one that was running.                               *)
C17_LastWriteWins ==
    [][/\ last'.op = "drag" =>
             (anim' = NoAnim /\ panValue' = ClampedDelta(gestureState', startBounds[1]))
       /\ last.op = "drag" => last'.op \notin {"tick", "rest"}
       /\ (last'.op = "animateTo" /\ ~last'.threw) =>
             anim' = Spring(last'.arg[1], last'.arg[2])
       /\ (last'.op = "release" /\ props.shouldReverse) =>
             (anim' # NoAnim /\ anim'[1].ticks = 0 /\ ~anim'[1].callback)
       /\ last'.op \in {"tick", "rest"} => anim # NoAnim]_vars

(* A move stopped the spring of an animateTo call: its callback ran and    *)
(* nothing is left running.                                                *)
C17_Witness ==
    /\ Dragged /\ anim = NoAnim
    /\ "callback" \in Names(calls)
    /\ panValue = [x |-> 70, y |-> 70]

(* C18 as stated: a release runs, in this order, isDragging = false, the   *)
(* flatten or the reverse spring, onDragRelease when one is supplied, and  *)
(* onRelease(event, true).                                                 *)
C18_ReleaseOrder ==
    last.op = "release" =>
        LET steps == SelectSeq(calls, LAMBDA c : c[1] # "callback")
            observer == IF onDragRelease = "null" THEN <<>> ELSE <<"onDragRelease">>
        IN  /\ [i \in 1..Len(steps) |-> steps[i][1]] =
                  <<"isDragging",
                    IF props.shouldReverse THEN "reversePosition" ELSE "flattenOffset">>
                  \o observer \o <<"onRelease">>
            /\ steps[1][2] = FALSE
            /\ steps[Len(steps)][2] = TRUE

(* C19: without reversal, when a spring comes to rest while no drag is in  *)
(* progress getBounds returns the base rectangle moved by its target, and  *)
(* a grant from rest snapshots the base rectangle moved by the value the   *)
(* animator rests on.                                                      *)
C19_MirrorTracksAnimateTo ==
    [][(~props.shouldReverse /\ mounted /\ ~isDragging) =>
          /\ last'.op = "rest" =>
                getBounds(offsetFromStart', childSize') = getBounds(anim[1].toValue[1], childSize')
          /\ (Granted /\ anim = NoAnim) =>
                startBounds' = Some(getBounds(Visual, childSize))]_vars

(* The first drag was granted after animateTo({20,-10}) came to rest *)
C19_Witness ==
    /\ ~props.shouldReverse /\ JustGranted
    /\ gestures = 1 /\ animations = 1
    /\ startBounds = Some(getBounds([x |-> 20, y |-> -10], childSize))

(* C20 as stated: while the component is mounted and no touch is in        *)
(* progress isDragging is false, so that a tap is reported through         *)
(* onRelease(event, false).                                                *)
C20_IdleWithoutTouch ==
    /\ (mounted /\ touch = "none") => ~isDragging
    /\ last.op = "tap" => "onRelease(false)" \in fired

====
